---- MODULE Spec2Model ----
(***************************************************************************)
(* Model of src/bot.js: the Betfair stream client (connect, authenticate,  *)
(* subscribe, frame decoding) and the market / martingale staking state    *)
(* machine driven by market-change (mcm) and order-change (ocm) messages.  *)
(*                                                                         *)
(* Conventions                                                             *)
(*  - prices are in tenths (3.0 is 30), money is in units of 1/MoneyScale  *)
(*    euro, so that every stake and profit the model can reach is exact;   *)
(*  - a JS null / undefined object is the empty sequence <<>>, a present   *)
(*    one is a one-element sequence;                                       *)
(*  - log-only state (status, sets, the total* counters, hasPlacedBet,     *)
(*    startTime) is not part of the model; the "bet_outcome" records one   *)
(*    message appends to the ndjson log are the fields log (the last one)  *)
(*    and ns (their number) of the staking record.                         *)
(***************************************************************************)
EXTENDS Integers, Sequences, FiniteSets, TLC

\* ------------------------------------------------------------------ bounds
MaxBets == 2
MaxSubMarkets == 25
MaxConns == 2
MaxChunk == 2
MaxBuffer == 2
MaxStream == 6
MaxSuccess == 2

\* --------------------------------------------------------------- constants
fixedBalance == 100
simulationBalance == 100
betPercentage == 10
maxMarketsPerSubscription == 10
testBetOdds == 15
testBetOddsTolerance == 10
ImpossiblePrice == 1000 * 10
OrderSubscriptionId == 999
Null == -1
Undefined == 0
CR == 13
LF == 10
Replacement == 65533

MoneyScale == 4 * (400 ^ (MaxBets - 1))
Euro(n) == n * MoneyScale
MinimalStake == Euro(2)
ResidualSize == MoneyScale \div 20

\* market ids of the initial snapshot: simulation tracks three markets, the
\* live specifications two
Markets == {1, 2, 3}
LiveMarkets == {1, 2}
UntrackedId == 4
selectionIdA == 1
selectionIdB == 2

VARIABLES
  enableSimulation, testBetEnabled, useImpossibleOdds,
  gameHistoricalData, orderIds,
  multiplier, simBalance, hasOpenBet, testBetPlaced,
  pending, betsPlaced, ended,
  ws, wsState, closing, timers, isSubscribed, isAuthenticated, buffer,
  written, gotSuccess, successes, rx, frames

config == <<enableSimulation, testBetEnabled, useImpossibleOdds>>

\* the transport: ws is the number of the current socket (0: none), wsState
\* its state, closing the number of replaced sockets whose 'close' event is
\* still to come, timers the number of scheduled reconnects; written is what
\* was written to the current socket; gotSuccess, successes, rx and frames
\* record what the current socket delivered (successes: the number of status
\* SUCCESS messages dispatched)
transport == <<ws, wsState, closing, timers, buffer, rx, frames>>

vars == <<enableSimulation, testBetEnabled, useImpossibleOdds,
          gameHistoricalData, orderIds,
          multiplier, simBalance, hasOpenBet, testBetPlaced,
          pending, betsPlaced, ended,
          ws, wsState, closing, timers, isSubscribed, isAuthenticated, buffer,
          written, gotSuccess, successes, rx, frames>>

\* ------------------------------------------------------------- the store
NewGame == [isOpen |-> TRUE, pA |-> Null, pB |-> Null,
            hasFirstSetEnded |-> FALSE, bet |-> <<>>]

\* The staking state handleStreamMessage reads and writes, as one record.
Cur == [g |-> gameHistoricalData, o |-> orderIds, mult |-> multiplier,
        bal |-> simBalance, open |-> hasOpenBet, test |-> testBetPlaced,
        pend |-> pending, nb |-> betsPlaced, ended |-> ended,
        log |-> <<>>, ns |-> 0,
        auth |-> isAuthenticated, sub |-> isSubscribed, out |-> written,
        ok |-> gotSuccess, nok |-> successes]

Abs(x) == IF x < 0 THEN -x ELSE x

\* typeof odds === "number" && !isNaN(odds) && odds !== 0, then odds > 1
OddsUsable_NoMin(odds) ==
  /\ odds.t = "number"
  /\ odds.v # 0

OddsUsable(odds) ==
  /\ odds.t = "number"
  /\ odds.v # 0
  /\ ~(odds.v <= 10)

\* one runner entry of mc.rc
UpdateRunner(game, runner) ==
  IF ~OddsUsable(runner.batb) THEN game
  ELSE IF runner.id = selectionIdA THEN [game EXCEPT !.pA = runner.batb.v]
  ELSE IF runner.id = selectionIdB THEN [game EXCEPT !.pB = runner.batb.v]
  ELSE game

RECURSIVE UpdateOdds(_, _)
UpdateOdds(game, rc) ==
  IF rc = <<>> THEN game
  ELSE UpdateOdds(UpdateRunner(game, Head(rc)), Tail(rc))

\* x * num / den on exact fixed-point amounts, without a wide product
Frac(x, num, den) == (x \div den) * num + ((x % den) * num) \div den

\* betSize of placeBet
BetSize(st) ==
  IF enableSimulation THEN Frac(st.bal, betPercentage, 100) * st.mult
  ELSE IF useImpossibleOdds THEN MinimalStake
  ELSE Frac(Euro(fixedBalance), betPercentage, 100) * st.mult

\* placeBet up to its first suspension point; a request in flight is a
\* record, k its sequence number and betId the bet id it carries (none in a
\* placeOrders request)
PlaceBet(st, marketId, selectionId, price, isTestBet) ==
  LET betSize == BetSize(st) IN
  IF enableSimulation
  THEN [st EXCEPT !.o[marketId] = 100 + marketId,
                  !.bal = st.bal - betSize,
                  !.g[marketId].bet =
                     <<[selectionId |-> selectionId, size |-> betSize,
                        price |-> price]>>,
                  !.open = TRUE,
                  !.test = (st.test \/ isTestBet),
                  !.nb = st.nb + 1]
  ELSE [st EXCEPT !.pend = st.pend \cup
                     {[k |-> st.nb + 1, betId |-> Undefined,
                       marketId |-> marketId,
                       selectionId |-> selectionId, price |-> price,
                       size |-> betSize, isTestBet |-> isTestBet,
                       stage |-> "placeOrders"]},
                  !.nb = st.nb + 1]

WithinTolerance(odds) ==
  /\ odds # Null
  /\ odds # 0
  /\ Abs(odds - testBetOdds) <= testBetOddsTolerance

\* test betting logic
TestBet(st, marketId) ==
  LET game == st.g[marketId] IN
  IF testBetEnabled /\ ~st.test /\ ~st.open
  THEN IF WithinTolerance(game.pA)
       THEN PlaceBet(st, marketId, selectionIdA, game.pA, TRUE)
       ELSE IF WithinTolerance(game.pB)
       THEN PlaceBet(st, marketId, selectionIdB, game.pB, TRUE)
       ELSE st
  ELSE st

\* difference <= 2 && underdogOdds >= 2
ConditionMet(homeScore, awayScore, underdogOdds) ==
  /\ Abs(homeScore - awayScore) <= 2
  /\ underdogOdds >= 20

ScoreTrigger_NoLatch(st, mc) ==
  LET marketId == mc.id
      game == st.g[marketId]
  IN
  IF mc.hasMd /\ mc.hasScore /\ ~testBetEnabled
  THEN IF Len(mc.sets) >= 1 /\ mc.sets[1].completed
       THEN LET set1 == mc.sets[1]
                homeScore == set1.homeScore
                awayScore == set1.awayScore
                underdogOdds == IF homeScore > awayScore THEN game.pB
                                ELSE game.pA
                latched == [st EXCEPT !.g[marketId].hasFirstSetEnded = TRUE]
            IN IF ConditionMet(homeScore, awayScore, underdogOdds)
                  /\ ~st.open
               THEN PlaceBet(latched, marketId,
                             IF homeScore > awayScore THEN selectionIdB
                             ELSE selectionIdA,
                             underdogOdds, FALSE)
               ELSE latched
       ELSE st
  ELSE st

\* first-set trigger
ScoreTrigger(st, mc) ==
  LET marketId == mc.id
      game == st.g[marketId]
  IN
  IF mc.hasMd /\ mc.hasScore /\ ~testBetEnabled
  THEN IF Len(mc.sets) >= 1 /\ ~game.hasFirstSetEnded /\ mc.sets[1].completed
       THEN LET set1 == mc.sets[1]
                homeScore == set1.homeScore
                awayScore == set1.awayScore
                underdogOdds == IF homeScore > awayScore THEN game.pB
                                ELSE game.pA
                latched == [st EXCEPT !.g[marketId].hasFirstSetEnded = TRUE]
            IN IF ConditionMet(homeScore, awayScore, underdogOdds)
                  /\ ~st.open
               THEN PlaceBet(latched, marketId,
                             IF homeScore > awayScore THEN selectionIdB
                             ELSE selectionIdA,
                             underdogOdds, FALSE)
               ELSE latched
       ELSE st
  ELSE st

\* pnl of a won bet: (price - 1) * size * 0.95
WinPnl_NoCommission(price, size) == Frac(size, price - 10, 10)

WinPnl(price, size) == Frac(size, (price - 10) * 95, 1000)

MultiplierAfter_Additive(isWin, mult) == IF isWin THEN 1 ELSE mult + 2

\* multiplier = 1 after a win, multiplier *= 2 after a loss
MultiplierAfter(isWin, mult) == IF isWin THEN 1 ELSE mult * 2

\* settlement of game.bet against the runner marked WINNER
SettleClosed(st, marketId, winner) ==
  LET bet == st.g[marketId].bet[1]
      isWin == (winner = bet.selectionId)
      pnl == IF isWin THEN WinPnl(bet.price, bet.size) ELSE 0 - bet.size
  IN [st EXCEPT !.bal = IF ~enableSimulation THEN st.bal
                        ELSE IF isWin THEN st.bal + pnl + bet.size
                        ELSE st.bal - bet.size,
                !.mult = MultiplierAfter(isWin, st.mult),
                !.log = <<[marketId |-> marketId,
                           selectionId |-> bet.selectionId,
                           outcome |-> IF isWin THEN "win" ELSE "lose",
                           pnl |-> pnl,
                           mode |-> IF enableSimulation THEN "simulated"
                                    ELSE "live"]>>,
                !.ns = st.ns + 1]

RemoveMarket_Keep(g, marketId) == g

\* game.isOpen = false; game.status = "ENDED"; delete gameHistoricalData[id]
RemoveMarket(g, marketId) == [k \in (DOMAIN g) \ {marketId} |-> g[k]]

\* the CLOSED branch
CloseMarket(st, mc) ==
  LET marketId == mc.id
      s1 == IF st.g[marketId].bet # <<>> /\ mc.winner # 0
            THEN SettleClosed(st, marketId, mc.winner)
            ELSE st
  IN [s1 EXCEPT !.o[marketId] = Undefined,
                !.g = RemoveMarket(s1.g, marketId),
                !.open = FALSE,
                !.test = FALSE,
                !.ended = s1.ended \cup {marketId}]

\* the body of message.mc.forEach
HandleMc(st, mc) ==
  IF mc.id \notin DOMAIN st.g THEN st
  ELSE IF ~st.g[mc.id].isOpen THEN st
  ELSE
    LET marketId == mc.id
        isInPlay == mc.hasMd /\ mc.inPlay
    IN
    IF ~testBetEnabled /\ isInPlay /\ ~mc.hasScore
    THEN [st EXCEPT !.g[marketId].isOpen = FALSE]
    ELSE
      LET s1 == IF mc.hasRc /\ isInPlay
                THEN TestBet([st EXCEPT !.g[marketId] =
                                 UpdateOdds(st.g[marketId], mc.rc)],
                             marketId)
                ELSE st
          s2 == ScoreTrigger(s1, mc)
      IN IF mc.hasMd /\ mc.status = "CLOSED"
         THEN CloseMarket(s2, mc)
         ELSE s2

RECURSIVE HandleMcm(_, _)
HandleMcm(st, mcs) ==
  IF mcs = <<>> THEN st
  ELSE HandleMcm(HandleMc(st, Head(mcs)), Tail(mcs))

\* one order report of oc.or
HandleOrder(st, marketId, order) ==
  IF /\ order.status = "EXECUTION_COMPLETE"
     /\ order.hasProfit
     /\ order.betId = st.o[marketId]
  THEN LET isWin == order.profit > 0
       IN [st EXCEPT !.log = <<[marketId |-> marketId,
                                selectionId |->
                                   st.g[marketId].bet[1].selectionId,
                                outcome |-> IF isWin THEN "win" ELSE "lose",
                                pnl |-> order.profit,
                                mode |-> "live"]>>,
                     !.ns = st.ns + 1,
                     !.mult = MultiplierAfter(isWin, st.mult),
                     !.open = FALSE,
                     !.test = FALSE,
                     !.o[marketId] = Undefined]
  ELSE st

RECURSIVE HandleOrders(_, _, _)
HandleOrders(st, marketId, orders) ==
  IF orders = <<>> THEN st
  ELSE HandleOrders(HandleOrder(st, marketId, Head(orders)), marketId,
                    Tail(orders))

\* the body of message.oc.forEach
HandleOc(st, oc) ==
  IF /\ oc.marketId \in DOMAIN st.g
     /\ st.o[oc.marketId] # Undefined
     /\ ~enableSimulation
  THEN HandleOrders(st, oc.marketId, oc.orders)
  ELSE st

RECURSIVE HandleOcm(_, _)
HandleOcm(st, ocs) ==
  IF ocs = <<>> THEN st
  ELSE HandleOcm(HandleOc(st, Head(ocs)), Tail(ocs))

\* ------------------------------------------------------------ transport
Min(a, b) == IF a < b THEN a ELSE b

RECURSIVE SeqOfSet(_)
SeqOfSet(S) ==
  IF S = {} THEN <<>>
  ELSE LET m == CHOOSE x \in S : \A y \in S : x <= y
       IN <<m>> \o SeqOfSet(S \ {m})

\* Object.values(gameHistoricalData).filter(isOpen).map(marketId)
OpenMarketIds(g) == SeqOfSet({m \in DOMAIN g : g[m].isOpen})

Slice_Inclusive(seq, from, to) == SubSeq(seq, from + 1, Min(to + 1, Len(seq)))

\* seq.slice(from, to), from and to counted from 0
Slice(seq, from, to) == SubSeq(seq, from + 1, Min(to, Len(seq)))

Outbound(op, id, marketIds) == [op |-> op, id |-> id, marketIds |-> marketIds]

\* the for loop of subscribeToOpenMarkets, from index i
RECURSIVE MarketSubscriptions(_, _)
MarketSubscriptions(ids, i) ==
  IF i >= Len(ids) THEN <<>>
  ELSE <<Outbound("marketSubscription",
                  1 + (i \div maxMarketsPerSubscription),
                  Slice(ids, i, i + maxMarketsPerSubscription))>>
       \o MarketSubscriptions(ids, i + maxMarketsPerSubscription)

SubscribeToOpenMarkets_Always(st) ==
  LET openMarketIds == OpenMarketIds(st.g) IN
  IF ws = 0 \/ openMarketIds = <<>> THEN st
  ELSE [st EXCEPT !.out = st.out \o MarketSubscriptions(openMarketIds, 0)
                             \o <<Outbound("orderSubscription",
                                           OrderSubscriptionId, <<>>)>>,
                  !.sub = TRUE]

\* subscribeToOpenMarkets
SubscribeToOpenMarkets(st) ==
  LET openMarketIds == OpenMarketIds(st.g) IN
  IF st.sub THEN st
  ELSE IF ws = 0 \/ openMarketIds = <<>> THEN st
  ELSE [st EXCEPT !.out = st.out \o MarketSubscriptions(openMarketIds, 0)
                             \o <<Outbound("orderSubscription",
                                           OrderSubscriptionId, <<>>)>>,
                  !.sub = TRUE]

Message(op, statusCode, mc, oc) ==
  [op |-> op, statusCode |-> statusCode, mc |-> mc, oc |-> oc]

IsAuthSuccess_AnyStatus(message) == message.op = "status"

\* message.op === "status" && message.statusCode === "SUCCESS"
IsAuthSuccess(message) ==
  message.op = "status" /\ message.statusCode = "SUCCESS"

HandleStreamMessage(st, message) ==
  IF IsAuthSuccess(message)
  THEN SubscribeToOpenMarkets([st EXCEPT !.auth = TRUE])
  ELSE IF message.op = "mcm" THEN HandleMcm(st, message.mc)
  ELSE IF message.op = "ocm" THEN HandleOcm(st, message.oc)
  ELSE st

\* a delta that reports a market in play without score data and without odds
ExclusionDelta(id) ==
  [id |-> id, hasMd |-> TRUE, inPlay |-> TRUE, hasScore |-> FALSE,
   sets |-> <<>>, status |-> "OPEN", winner |-> 0, hasRc |-> FALSE,
   rc |-> <<>>]

\* the characters JSON.parse skips before and after the JSON text
JsonWhitespace == {9, 10, 13, 32}

RECURSIVE TrimStart(_)
TrimStart(text) ==
  IF text # <<>> /\ Head(text) \in JsonWhitespace THEN TrimStart(Tail(text))
  ELSE text

RECURSIVE TrimEnd(_)
TrimEnd(text) ==
  IF text # <<>> /\ text[Len(text)] \in JsonWhitespace
  THEN TrimEnd(SubSeq(text, 1, Len(text) - 1))
  ELSE text

\* JSON.parse: the one-letter frames abbreviate the JSON texts of a status
\* SUCCESS (s), a status FAILURE (f) and two mcm messages (e, g), with any
\* whitespace (CR and LF among it) before and after the text; JSON.parse
\* throws on every other frame (the empty sequence)
Parse(message) ==
  LET text == TrimEnd(TrimStart(message)) IN
  IF text = <<115>> THEN <<Message("status", "SUCCESS", <<>>, <<>>)>>
  ELSE IF text = <<102>> THEN <<Message("status", "FAILURE", <<>>, <<>>)>>
  ELSE IF text = <<101>>
  THEN <<Message("mcm", "", <<ExclusionDelta(1)>>, <<>>)>>
  ELSE IF text = <<103>>
  THEN <<Message("mcm", "", <<ExclusionDelta(11)>>, <<>>)>>
  ELSE <<>>

\* Buffer.prototype.toString(): UTF-8 decoding of one chunk of bytes.
\* The number of bytes of the sequence a lead byte opens (0: not a lead)
Utf8Length(lead) ==
  IF lead < 128 THEN 1
  ELSE IF lead >= 194 /\ lead <= 223 THEN 2
  ELSE IF lead >= 224 /\ lead <= 239 THEN 3
  ELSE IF lead >= 240 /\ lead <= 244 THEN 4
  ELSE 0

\* the bytes that may follow a lead byte (no overlong form, no surrogate,
\* nothing above U+10FFFF)
Utf8Second(lead) ==
  IF lead = 224 THEN 160..191
  ELSE IF lead = 237 THEN 128..159
  ELSE IF lead = 240 THEN 144..191
  ELSE IF lead = 244 THEN 128..143
  ELSE 128..191

\* how many bytes at the head of bytes belong to the sequence its first
\* byte opens
Utf8Prefix(bytes) ==
  LET n == Utf8Length(bytes[1])
      ok2 == n >= 2 /\ Len(bytes) >= 2 /\ bytes[2] \in Utf8Second(bytes[1])
      ok3 == ok2 /\ n >= 3 /\ Len(bytes) >= 3 /\ bytes[3] \in 128..191
      ok4 == ok3 /\ n >= 4 /\ Len(bytes) >= 4 /\ bytes[4] \in 128..191
  IN IF ok4 THEN 4 ELSE IF ok3 THEN 3 ELSE IF ok2 THEN 2 ELSE 1

\* the code point a complete sequence encodes
Utf8CodePoint(seq) ==
  IF Len(seq) = 1 THEN seq[1]
  ELSE IF Len(seq) = 2 THEN (seq[1] - 192) * 64 + (seq[2] - 128)
  ELSE IF Len(seq) = 3
  THEN (seq[1] - 224) * 4096 + (seq[2] - 128) * 64 + (seq[3] - 128)
  ELSE (seq[1] - 240) * 262144 + (seq[2] - 128) * 4096
          + (seq[3] - 128) * 64 + (seq[4] - 128)

\* one code point per complete sequence; one U+FFFD per stray byte and per
\* sequence that is cut short by the end of the chunk or by a byte that
\* cannot continue it
RECURSIVE Utf8Decode(_)
Utf8Decode(bytes) ==
  IF bytes = <<>> THEN <<>>
  ELSE IF Head(bytes) < 128 THEN <<Head(bytes)>> \o Utf8Decode(Tail(bytes))
  ELSE LET n == Utf8Length(Head(bytes))
           k == Utf8Prefix(bytes)
           rest == SubSeq(bytes, k + 1, Len(bytes))
       IN IF n > 0 /\ k = n
          THEN <<Utf8CodePoint(SubSeq(bytes, 1, n))>> \o Utf8Decode(rest)
          ELSE <<Replacement>> \o Utf8Decode(rest)

\* buffer.indexOf("\r\n"), counted from 1; 0 when there is none
IndexOfTerminator(text) ==
  LET hits == {i \in 1..(Len(text) - 1) : text[i] = CR /\ text[i + 1] = LF}
  IN IF hits = {} THEN 0 ELSE CHOOSE i \in hits : \A j \in hits : i <= j

\* the while (true) loop of the data handler
RECURSIVE Drain(_, _, _)
Drain_StopOnError(st, text, got) ==
  LET index == IndexOfTerminator(text) IN
  IF index = 0 THEN [st |-> st, buf |-> text, got |-> got]
  ELSE LET message == SubSeq(text, 1, index - 1)
           rest == SubSeq(text, index + 2, Len(text))
           parsed == Parse(message)
       IN IF parsed = <<>>
          THEN [st |-> st, buf |-> rest, got |-> Append(got, message)]
          ELSE Drain(HandleStreamMessage(
                       [st EXCEPT !.ok = st.ok \/
                           (/\ parsed[1].op = "status"
                            /\ parsed[1].statusCode = "SUCCESS"),
                                  !.nok = IF /\ parsed[1].op = "status"
                                             /\ parsed[1].statusCode = "SUCCESS"
                                          THEN st.nok + 1 ELSE st.nok],
                       parsed[1]),
                     rest, Append(got, message))

\* try { handleStreamMessage(JSON.parse(message)) } catch: skip the frame
Drain(st, text, got) ==
  LET index == IndexOfTerminator(text) IN
  IF index = 0 THEN [st |-> st, buf |-> text, got |-> got]
  ELSE LET message == SubSeq(text, 1, index - 1)
           rest == SubSeq(text, index + 2, Len(text))
           parsed == Parse(message)
       IN IF parsed = <<>> THEN Drain(st, rest, Append(got, message))
          ELSE Drain(HandleStreamMessage(
                       [st EXCEPT !.ok = st.ok \/
                           (/\ parsed[1].op = "status"
                            /\ parsed[1].statusCode = "SUCCESS"),
                                  !.nok = IF /\ parsed[1].op = "status"
                                             /\ parsed[1].statusCode = "SUCCESS"
                                          THEN st.nok + 1 ELSE st.nok],
                       parsed[1]),
                     rest, Append(got, message))

\* ---------------------------------------------------------------- inputs
Num(v) == [t |-> "number", v |-> v]
NaN == [t |-> "NaN", v |-> 0]
Str == [t |-> "string", v |-> 0]
Missing == [t |-> "undefined", v |-> 0]
Runner(id, batb) == [id |-> id, batb |-> batb]

UsableOdds == {Num(15), Num(30)}
UnusableOdds == {Missing, Str, NaN, Num(0), Num(10), Num(5), Num(0 - 20)}

RcInputs ==
  {<<Runner(r, o)>> : r \in {selectionIdA, selectionIdB}, o \in UsableOdds}
  \cup {<<Runner(selectionIdA, o)>> : o \in UnusableOdds}
  \cup {<<Runner(selectionIdB, Num(10))>>, <<Runner(3, Num(30))>>, <<>>,
        <<Runner(selectionIdA, Num(30)), Runner(selectionIdB, Num(15))>>}

Set1(h, a, c) == [homeScore |-> h, awayScore |-> a, completed |-> c]

SetInputs == {<<Set1(5, 4, FALSE)>>, <<Set1(6, 4, TRUE)>>,
              <<Set1(4, 6, TRUE)>>, <<Set1(6, 1, TRUE)>>,
              <<Set1(3, 6, TRUE)>>, <<>>}

Mc(id, hasMd, inPlay, hasScore, sets, status, winner, hasRc, rc) ==
  [id |-> id, hasMd |-> hasMd, inPlay |-> inPlay, hasScore |-> hasScore,
   sets |-> sets, status |-> status, winner |-> winner, hasRc |-> hasRc,
   rc |-> rc]

OddsDeltas(id) ==
  {Mc(id, TRUE, TRUE, TRUE, <<>>, "OPEN", 0, TRUE, rc) : rc \in RcInputs}
  \cup {Mc(id, TRUE, TRUE, FALSE, <<>>, "OPEN", 0, TRUE,
           <<Runner(selectionIdA, Num(15))>>),
        Mc(id, TRUE, FALSE, FALSE, <<>>, "OPEN", 0, TRUE,
           <<Runner(selectionIdA, Num(30))>>),
        Mc(id, FALSE, FALSE, FALSE, <<>>, "OPEN", 0, TRUE,
           <<Runner(selectionIdB, Num(30))>>)}

ScoreDeltas(id) ==
  {Mc(id, TRUE, TRUE, TRUE, sets, "OPEN", 0, FALSE, <<>>) : sets \in SetInputs}
  \cup {Mc(id, TRUE, TRUE, TRUE, <<Set1(6, 4, TRUE)>>, "OPEN", 0, TRUE,
           <<Runner(selectionIdB, Num(30))>>)}

ClosedDeltas(id) ==
  {Mc(id, TRUE, FALSE, FALSE, <<>>, "CLOSED", w, FALSE, <<>>) :
      w \in {0, selectionIdA, selectionIdB}}

\* a delta that, in non-test mode, excludes the market (in-play, no score)
NoScoreDelta(id) ==
  Mc(id, TRUE, TRUE, FALSE, <<>>, "OPEN", 0, TRUE,
     <<Runner(selectionIdA, Num(15))>>)

PairShapes(id) ==
  {Mc(id, TRUE, TRUE, TRUE, <<Set1(6, 4, TRUE)>>, "OPEN", 0, TRUE,
      <<Runner(selectionIdB, Num(30))>>),
   Mc(id, TRUE, TRUE, TRUE, <<>>, "OPEN", 0, TRUE,
      <<Runner(selectionIdA, Num(15))>>),
   Mc(id, TRUE, FALSE, FALSE, <<>>, "CLOSED", selectionIdA, FALSE, <<>>)}

\* markets 2 and 3 receive a reduced family of deltas
FewDeltas(id) == PairShapes(id) \cup ClosedDeltas(id) \cup {NoScoreDelta(id)}

DeltaInputs ==
  OddsDeltas(1) \cup ScoreDeltas(1) \cup ClosedDeltas(1)
  \cup FewDeltas(2) \cup FewDeltas(3)
  \cup {Mc(UntrackedId, TRUE, TRUE, TRUE, <<>>, "CLOSED", selectionIdA, TRUE,
           <<Runner(selectionIdA, Num(30))>>)}

LiveRcInputs ==
  {<<Runner(selectionIdA, Num(15))>>, <<Runner(selectionIdA, Num(30))>>,
   <<Runner(selectionIdB, Num(30))>>, <<Runner(selectionIdA, NaN)>>}

LiveDeltaInputs ==
  {Mc(1, TRUE, TRUE, TRUE, <<>>, "OPEN", 0, TRUE, rc) : rc \in LiveRcInputs}
  \cup {NoScoreDelta(1)}
  \cup ScoreDeltas(1) \cup ClosedDeltas(1)
  \cup FewDeltas(2)

McmInputs ==
  {<<d>> : d \in DeltaInputs}
  \cup {<<d1, d2>> : d1 \in PairShapes(1), d2 \in PairShapes(2)}
  \cup {<<d2, d1>> : d1 \in PairShapes(1), d2 \in PairShapes(2)}
  \cup {<<d, d>> : d \in PairShapes(1)}

Order(status, hasProfit, profit, betId) ==
  [status |-> status, hasProfit |-> hasProfit, profit |-> profit,
   betId |-> betId]

OrderInputs ==
  {Order("EXECUTION_COMPLETE", TRUE, p, b) :
      p \in {Euro(5), 0, 0 - Euro(2)}, b \in 1..MaxBets}
  \cup {Order("EXECUTABLE", TRUE, Euro(5), b) : b \in 1..MaxBets}
  \cup {Order("EXECUTION_COMPLETE", FALSE, 0, 1),
        Order("EXECUTION_COMPLETE", TRUE, 0 - Euro(2), Undefined)}

Oc(marketId, orders) == [marketId |-> marketId, orders |-> orders]

McmInputsLive ==
  {<<d>> : d \in LiveDeltaInputs}
  \cup {<<d1, d2>> : d1 \in PairShapes(1), d2 \in PairShapes(2)}
  \cup {<<d2, d1>> : d1 \in PairShapes(1), d2 \in PairShapes(2)}

OcmInputs ==
  {<<Oc(m, <<o>>)>> : m \in LiveMarkets, o \in OrderInputs}
  \cup {<<Oc(m, <<Order("EXECUTION_COMPLETE", TRUE, 0 - Euro(2), b),
                 Order("EXECUTION_COMPLETE", TRUE, 0 - Euro(2), b)>>)>> :
          m \in LiveMarkets, b \in 1..MaxBets}
  \cup {<<Oc(m, <<Order("EXECUTION_COMPLETE", TRUE, 0 - Euro(2), b),
                 Order("EXECUTION_COMPLETE", TRUE, 0 - Euro(2), Undefined)>>)>> :
          m \in LiveMarkets, b \in 1..MaxBets}
  \cup {<<Oc(UntrackedId, <<Order("EXECUTION_COMPLETE", TRUE, Euro(5), 1)>>)>>}

\* --------------------------------------------------------------- actions
Install(st) ==
  /\ gameHistoricalData' = st.g
  /\ orderIds' = st.o
  /\ multiplier' = st.mult
  /\ simBalance' = st.bal
  /\ hasOpenBet' = st.open
  /\ testBetPlaced' = st.test
  /\ pending' = st.pend
  /\ betsPlaced' = st.nb
  /\ ended' = st.ended
  /\ isAuthenticated' = st.auth
  /\ isSubscribed' = st.sub
  /\ written' = st.out
  /\ gotSuccess' = st.ok
  /\ successes' = st.nok
  /\ UNCHANGED config

\* handleStreamMessage, message.op === "mcm"
OnMcm(mcs) ==
  LET st == HandleMcm(Cur, mcs) IN
  /\ st.nb <= MaxBets
  /\ Install(st)
  /\ UNCHANGED transport

\* handleStreamMessage, message.op === "ocm"
OnOcm(ocs) ==
  /\ ~enableSimulation
  /\ Install(HandleOcm(Cur, ocs))
  /\ UNCHANGED transport

\* placeBet: the placeOrders request fails (response not ok, fetch throws,
\* or the body holds no instruction report)
PlaceOrdersFails(req) ==
  /\ req \in pending
  /\ req.stage = "placeOrders"
  /\ pending' = pending \ {req}
  /\ UNCHANGED <<config, transport, isSubscribed, isAuthenticated, written,
                 gotSuccess, successes,
                 gameHistoricalData, orderIds, multiplier, simBalance,
                 hasOpenBet, testBetPlaced, betsPlaced, ended>>

\* placeBet: the placeOrders request is answered with HTTP 200; betId is
\* data.instructionReports[0].betId, the id the exchange gave the order or
\* undefined in the report of an order it rejected (the report's status is
\* never read)
PlaceOrdersSucceeds(req, betId) ==
  /\ req \in pending
  /\ req.stage = "placeOrders"
  /\ betId \in {req.k, Undefined}
  /\ orderIds' = [orderIds EXCEPT ![req.marketId] = betId]
  /\ IF req.marketId \notin DOMAIN gameHistoricalData
     THEN \* TypeError on gameHistoricalData[marketId].bet, caught
          /\ pending' = pending \ {req}
          /\ UNCHANGED <<gameHistoricalData, hasOpenBet, testBetPlaced>>
     ELSE /\ gameHistoricalData' =
               [gameHistoricalData EXCEPT ![req.marketId].bet =
                  <<[selectionId |-> req.selectionId, size |-> req.size,
                     price |-> IF useImpossibleOdds THEN ImpossiblePrice
                               ELSE req.price]>>]
          /\ IF useImpossibleOdds
             THEN /\ pending' = (pending \ {req}) \cup
                                  {[req EXCEPT !.stage = "replaceOrders",
                                               !.betId = betId]}
                  /\ UNCHANGED <<hasOpenBet, testBetPlaced>>
             ELSE /\ pending' = pending \ {req}
                  /\ hasOpenBet' = TRUE
                  /\ testBetPlaced' = (testBetPlaced \/ req.isTestBet)
  /\ UNCHANGED <<config, transport, isSubscribed, isAuthenticated, written,
                 gotSuccess, successes,
                 multiplier, simBalance, betsPlaced, ended>>

\* editBet: the replaceOrders request fails; placeBet then resumes
ReplaceOrdersFails(req) ==
  /\ req \in pending
  /\ req.stage = "replaceOrders"
  /\ pending' = pending \ {req}
  /\ testBetPlaced' = (testBetPlaced \/ req.isTestBet)
  /\ UNCHANGED <<config, transport, isSubscribed, isAuthenticated, written,
                 gotSuccess, successes,
                 gameHistoricalData, orderIds, multiplier, simBalance,
                 hasOpenBet, betsPlaced, ended>>

\* editBet: the replaceOrders request succeeds; placeBet then resumes
ReplaceOrdersSucceeds(req) ==
  /\ req \in pending
  /\ req.stage = "replaceOrders"
  /\ pending' = pending \ {req}
  /\ testBetPlaced' = (testBetPlaced \/ req.isTestBet)
  /\ IF req.marketId \in DOMAIN gameHistoricalData
     THEN /\ gameHistoricalData' =
               [gameHistoricalData EXCEPT ![req.marketId].bet =
                  <<[selectionId |->
                        gameHistoricalData[req.marketId].bet[1].selectionId,
                     size |-> ResidualSize, price |-> req.price]>>]
          /\ hasOpenBet' = TRUE
     ELSE \* TypeError on gameHistoricalData[marketId].bet, caught
          UNCHANGED <<gameHistoricalData, hasOpenBet>>
  /\ UNCHANGED <<config, transport, isSubscribed, isAuthenticated, written,
                 gotSuccess, successes,
                 orderIds, multiplier, simBalance, betsPlaced, ended>>

\* ------------------------------------------------------- specifications
InitStaking(tracked) ==
  /\ gameHistoricalData = [m \in tracked |-> NewGame]
  /\ orderIds = [m \in Markets \cup {UntrackedId} |-> Undefined]
  /\ multiplier = 1
  /\ simBalance = Euro(simulationBalance)
  /\ hasOpenBet = FALSE
  /\ testBetPlaced = FALSE
  /\ pending = {}
  /\ betsPlaced = 0
  /\ ended = {}

\* no transport: the staking specifications deliver parsed messages directly
InitNoTransport ==
  /\ ws = 0
  /\ wsState = "none"
  /\ closing = 0
  /\ timers = 0
  /\ isSubscribed = FALSE
  /\ isAuthenticated = FALSE
  /\ buffer = <<>>
  /\ written = <<>>
  /\ gotSuccess = FALSE
  /\ successes = 0
  /\ rx = <<>>
  /\ frames = <<>>

\* simulation (the shipped setting of enableSimulation), either trigger
Init ==
  /\ enableSimulation = TRUE
  /\ testBetEnabled \in BOOLEAN
  /\ useImpossibleOdds = TRUE
  /\ InitStaking(Markets)
  /\ InitNoTransport

Next == \E mcs \in McmInputs : OnMcm(mcs)

Spec == Init /\ [][Next]_vars

\* live order placement under the direct policy, either trigger
InitLive ==
  /\ enableSimulation = FALSE
  /\ testBetEnabled \in BOOLEAN
  /\ useImpossibleOdds = FALSE
  /\ InitStaking(LiveMarkets)
  /\ InitNoTransport

NextLive ==
  \/ \E mcs \in McmInputsLive : OnMcm(mcs)
  \/ \E ocs \in OcmInputs : OnOcm(ocs)
  \/ \E req \in pending : PlaceOrdersFails(req)
  \/ \E req \in pending : \E betId \in {req.k, Undefined} :
        PlaceOrdersSucceeds(req, betId)

SpecLive == InitLive /\ [][NextLive]_vars

\* order-change messages in either mode (direct policy when live)
InitOrder ==
  /\ enableSimulation \in BOOLEAN
  /\ testBetEnabled \in BOOLEAN
  /\ useImpossibleOdds = FALSE
  /\ InitStaking(LiveMarkets)
  /\ InitNoTransport

SpecOrder == InitOrder /\ [][NextLive]_vars

\* live order placement under the aggressive-fill policy, either trigger
InitFill ==
  /\ enableSimulation = FALSE
  /\ testBetEnabled \in BOOLEAN
  /\ useImpossibleOdds = TRUE
  /\ InitStaking(LiveMarkets)
  /\ InitNoTransport

NextFill ==
  \/ \E mcs \in McmInputsLive : OnMcm(mcs)
  \/ \E ocs \in OcmInputs : OnOcm(ocs)
  \/ \E req \in pending : PlaceOrdersFails(req)
  \/ \E req \in pending : \E betId \in {req.k, Undefined} :
        PlaceOrdersSucceeds(req, betId)
  \/ \E req \in pending : ReplaceOrdersFails(req)
  \/ \E req \in pending : ReplaceOrdersSucceeds(req)

SpecFill == InitFill /\ [][NextFill]_vars

\* ------------------------------------------------- transport: actions
\* ws.on("connect"); the 'close' event of a socket that connectStreamAPI
\* destroyed is emitted before the new socket completes its connection
OnConnect ==
  /\ ws # 0
  /\ wsState = "connecting"
  /\ closing = 0
  /\ wsState' = "open"
  /\ written' = Append(written, Outbound("authentication", 0, <<>>))
  /\ UNCHANGED <<config, gameHistoricalData, orderIds, multiplier, simBalance,
                 hasOpenBet, testBetPlaced, pending, betsPlaced, ended,
                 ws, closing, timers, isSubscribed, isAuthenticated, buffer,
                 gotSuccess, successes, rx, frames>>

\* ws.on("data"); traced: record the bytes and the frames in rx and frames
DataEvent(chunk, traced) ==
  LET r == Drain(Cur, buffer \o Utf8Decode(chunk), <<>>) IN
  /\ ws # 0
  /\ wsState = "open"
  /\ Len(r.buf) <= MaxBuffer
  /\ traced => Len(rx) + Len(chunk) <= MaxStream
  /\ r.st.nb <= MaxBets
  /\ r.st.nok <= MaxSuccess
  /\ Install(r.st)
  /\ buffer' = r.buf
  /\ rx' = IF traced THEN rx \o chunk ELSE rx
  /\ frames' = IF traced THEN frames \o r.got ELSE frames
  /\ UNCHANGED <<ws, wsState, closing, timers>>

OnData(chunk) == DataEvent(chunk, FALSE)

OnDataTraced(chunk) == DataEvent(chunk, TRUE)

OnError_NoTimer ==
  /\ ws # 0
  /\ wsState \in {"connecting", "open"}
  /\ closing = 0
  /\ wsState' = "errored"
  /\ isSubscribed' = FALSE
  /\ UNCHANGED <<config, gameHistoricalData, orderIds, multiplier, simBalance,
                 hasOpenBet, testBetPlaced, pending, betsPlaced, ended,
                 ws, closing, timers, isAuthenticated, buffer, written,
                 gotSuccess, successes, rx, frames>>

\* ws.on("error") of the current socket
OnError ==
  /\ ws # 0
  /\ wsState \in {"connecting", "open"}
  /\ closing = 0
  /\ wsState' = "errored"
  /\ isSubscribed' = FALSE
  /\ timers' = timers + 1
  /\ UNCHANGED <<config, gameHistoricalData, orderIds, multiplier, simBalance,
                 hasOpenBet, testBetPlaced, pending, betsPlaced, ended,
                 ws, closing, isAuthenticated, buffer, written, gotSuccess,
                 successes,
                 rx, frames>>

\* ws.on("close") of the current socket: after its error, or the peer closed
OnClose ==
  /\ ws # 0
  /\ wsState \in {"open", "errored"}
  /\ wsState' = "closed"
  /\ isSubscribed' = FALSE
  /\ timers' = timers + 1
  /\ UNCHANGED <<config, gameHistoricalData, orderIds, multiplier, simBalance,
                 hasOpenBet, testBetPlaced, pending, betsPlaced, ended,
                 ws, closing, isAuthenticated, buffer, written, gotSuccess,
                 successes,
                 rx, frames>>

\* ws.on("close") of a socket that connectStreamAPI has replaced
OnCloseReplaced ==
  /\ closing > 0
  /\ closing' = closing - 1
  /\ isSubscribed' = FALSE
  /\ timers' = timers + 1
  /\ UNCHANGED <<config, gameHistoricalData, orderIds, multiplier, simBalance,
                 hasOpenBet, testBetPlaced, pending, betsPlaced, ended,
                 ws, wsState, isAuthenticated, buffer, written, gotSuccess,
                 successes,
                 rx, frames>>

\* setTimeout(connectStreamAPI, 20000) fires: connectStreamAPI
Reconnect ==
  /\ timers > 0
  /\ ws < MaxConns
  /\ timers' = timers - 1
  /\ closing' = IF ws # 0 /\ wsState # "closed" THEN closing + 1 ELSE closing
  /\ ws' = ws + 1
  /\ wsState' = "connecting"
  /\ isSubscribed' = FALSE
  /\ isAuthenticated' = FALSE
  /\ written' = <<>>
  /\ gotSuccess' = FALSE
  /\ successes' = 0
  /\ rx' = <<>>
  /\ frames' = <<>>
  /\ UNCHANGED <<config, gameHistoricalData, orderIds, multiplier, simBalance,
                 hasOpenBet, testBetPlaced, pending, betsPlaced, ended,
                 buffer>>

\* -------------------------------------------- transport: specifications
Letters == {115, 102, 101}

RECURSIVE SeqsUpTo(_, _)
SeqsUpTo(S, n) ==
  IF n = 0 THEN {<<>>}
  ELSE LET shorter == SeqsUpTo(S, n - 1)
       IN shorter \cup {Append(q, x) : q \in shorter, x \in S}

Chunks(S) == SeqsUpTo(S, MaxChunk) \ {<<>>}

\* runBot: the store holds the tracked markets, connectStreamAPI was called
InitTransport(tracked) ==
  /\ enableSimulation = TRUE
  /\ testBetEnabled \in BOOLEAN
  /\ useImpossibleOdds = TRUE
  /\ gameHistoricalData = [m \in tracked |-> NewGame]
  /\ orderIds = [m \in Markets \cup {UntrackedId} |-> Undefined]
  /\ multiplier = 1
  /\ simBalance = Euro(simulationBalance)
  /\ hasOpenBet = FALSE
  /\ testBetPlaced = FALSE
  /\ pending = {}
  /\ betsPlaced = 0
  /\ ended = {}
  /\ ws = 1
  /\ wsState = "connecting"
  /\ closing = 0
  /\ timers = 0
  /\ isSubscribed = FALSE
  /\ isAuthenticated = FALSE
  /\ buffer = <<>>
  /\ written = <<>>
  /\ gotSuccess = FALSE
  /\ successes = 0
  /\ rx = <<>>
  /\ frames = <<>>

\* the connection life cycle over arbitrarily chunked ASCII input
InitConn == \E tracked \in {{}, {1, 2}} : InitTransport(tracked)

NextConn ==
  \/ OnConnect
  \/ \E chunk \in Chunks(Letters \cup {CR, LF}) : OnData(chunk)
  \/ OnError
  \/ OnClose
  \/ OnCloseReplaced
  \/ Reconnect

SpecConn == InitConn /\ [][NextConn]_vars

\* the same life cycle with the timers of setTimeout(connectStreamAPI, 20000)
\* firing: a scheduled reconnect is eventually run by the event loop
SpecRecover == InitConn /\ [][NextConn]_vars /\ WF_vars(Reconnect)

\* subscription over stores of 0 .. MaxSubMarkets markets, whole frames
InitSub == \E n \in 0..MaxSubMarkets : InitTransport(1..n)

WholeFrames == {<<c, CR, LF>> : c \in {115, 102, 101, 103}}

NextSub ==
  \/ OnConnect
  \/ \E chunk \in WholeFrames : OnData(chunk)

SpecSub == InitSub /\ [][NextSub]_vars

\* the frame decoder over arbitrarily chunked bytes of one connection:
\* ASCII, a two-byte character (195 169) and a three-byte one (226 130 169)
InitFrame == InitTransport({1, 2})

NextFrame ==
  \/ OnConnect
  \/ \E chunk \in Chunks({CR, LF, 120, 195, 169, 226, 130}) : OnDataTraced(chunk)

SpecFrame == InitFrame /\ [][NextFrame]_vars

\* the frame decoder across reconnects: one-letter status frames, chunked
\* arbitrarily, on connections that are lost and replaced
NextReconn ==
  \/ OnConnect
  \/ \E chunk \in Chunks({115, CR, LF}) : OnDataTraced(chunk)
  \/ OnError
  \/ OnClose
  \/ OnCloseReplaced
  \/ Reconnect

SpecReconn == InitFrame /\ [][NextReconn]_vars

\* the frame decoder over frames that parse (s) and frames that do not (x)
NextSkip ==
  \/ OnConnect
  \/ \E chunk \in Chunks({115, 120, CR, LF}) : OnDataTraced(chunk)

SpecSkip == InitFrame /\ [][NextSkip]_vars

\* ----------------------------------------------------------- properties
\* a recorded bet of a tracked market whose order id is still registered
UnsettledBet(m) ==
  /\ m \in DOMAIN gameHistoricalData
  /\ gameHistoricalData[m].bet # <<>>
  /\ orderIds[m] # Undefined

RECURSIVE IsPowerOfTwo(_)
IsPowerOfTwo(n) ==
  \/ n = 1
  \/ (n > 1 /\ n % 2 = 0 /\ IsPowerOfTwo(n \div 2))

\* C1: in every reachable state at most one MarketState of the store holds
\* a recorded bet that has not been settled.
C1_SingleUnsettledBet ==
  Cardinality({m \in Markets : UnsettledBet(m)}) <= 1

\* C2: hasOpenBet is set in the step that decides to place a bet, before the
\* placement request suspends: while a placement request is in flight the
\* flag is true, and no second request is issued next to it.
C2_FlagSetWithDecision ==
  /\ pending # {} => hasOpenBet
  /\ Cardinality(pending) <= 1

\* C4: the multiplier starts at 1 and is always a power of two >= 1; a
\* delta or an order report that settles a loss doubles it, one that settles
\* a win sets it to 1, and one that settles nothing leaves it unchanged.
C4_MultiplierLaw ==
  /\ multiplier = 1
  /\ [](/\ IsPowerOfTwo(multiplier)
        /\ \A d \in LiveDeltaInputs :
             LET r == HandleMc(Cur, d) IN
             /\ r.ns \in {0, 1}
             /\ r.ns = 0 => r.mult = multiplier
             /\ (r.ns = 1 /\ r.log[1].outcome = "lose")
                   => r.mult = 2 * multiplier
             /\ (r.ns = 1 /\ r.log[1].outcome = "win") => r.mult = 1
        /\ \A m \in LiveMarkets : \A o \in OrderInputs :
             LET r == HandleOc(Cur, Oc(m, <<o>>)) IN
             /\ r.ns \in {0, 1}
             /\ r.ns = 0 => r.mult = multiplier
             /\ (r.ns = 1 /\ ~(o.profit > 0)) => r.mult = 2 * multiplier
             /\ (r.ns = 1 /\ o.profit > 0) => r.mult = 1)

\* two losses have been settled, one of them by an order report
C4_Witness ==
  /\ multiplier = 4
  /\ \E m \in LiveMarkets : /\ m \in DOMAIN gameHistoricalData
                            /\ gameHistoricalData[m].bet # <<>>
                            /\ orderIds[m] = Undefined

\* C5: a market-change delta for a market that has ENDED changes nothing:
\* store, multiplier, balance, hasOpenBet and testBetPlaced stay as they are.
C5_EndedMarketIgnored ==
  \A d \in DeltaInputs : d.id \in ended => HandleMc(Cur, d) = Cur

\* a market with a bet was closed and its loss settled
C5_Witness ==
  /\ ended # {}
  /\ multiplier = 2

StoredOddsValid(p) == p = Null \/ p > 10

\* C6: every stored pA and pB is unset or > 1, and a runner entry with an
\* unusable best-back price leaves pA and pB of its market unchanged.
C6_OddsValid ==
  /\ \A m \in DOMAIN gameHistoricalData :
        /\ StoredOddsValid(gameHistoricalData[m].pA)
        /\ StoredOddsValid(gameHistoricalData[m].pB)
  /\ \A m \in DOMAIN gameHistoricalData :
     \A id \in {selectionIdA, selectionIdB} : \A o \in UnusableOdds :
        LET r == HandleMc(Cur, Mc(m, TRUE, TRUE, TRUE, <<>>, "OPEN", 0,
                                  TRUE, <<Runner(id, o)>>))
        IN /\ r.g[m].pA = gameHistoricalData[m].pA
           /\ r.g[m].pB = gameHistoricalData[m].pB

\* both prices of a market have been set by usable runner entries
C6_Witness ==
  \E m \in DOMAIN gameHistoricalData :
     /\ gameHistoricalData[m].pA = 30
     /\ gameHistoricalData[m].pB = 15

\* (price - 1) * size * 0.95, as 19/200 of size per tenth of price above 1
ExpectedProfit(price, size) ==
  (size \div 200) * (19 * (price - 10))
     + ((size % 200) * (19 * (price - 10))) \div 200

\* C7: closing a market that holds a bet (stake s, price p) with a winner:
\* on a win profit = (p-1)*s*0.95, balance += profit + s, multiplier = 1;
\* otherwise profit = -s, balance -= s, multiplier doubles
\* (s = 10, p = 3.0: profit 19 and balance + 29, or profit -10, balance - 10).
C7_ClosureSettlement ==
  \A m \in DOMAIN gameHistoricalData :
  \A w \in {selectionIdA, selectionIdB} :
     (gameHistoricalData[m].isOpen /\ gameHistoricalData[m].bet # <<>>) =>
        LET bet == gameHistoricalData[m].bet[1]
            r == HandleMc(Cur, Mc(m, TRUE, FALSE, FALSE, <<>>, "CLOSED", w,
                                  FALSE, <<>>))
        IN /\ r.ns = 1
           /\ IF w = bet.selectionId
              THEN /\ r.log[1].pnl = ExpectedProfit(bet.price, bet.size)
                   /\ r.bal = simBalance + r.log[1].pnl + bet.size
                   /\ r.mult = 1
                   /\ (bet.size = Euro(10) /\ bet.price = 30)
                         => (/\ r.log[1].pnl = Euro(19)
                             /\ r.bal = simBalance + Euro(29))
              ELSE /\ r.log[1].pnl = 0 - bet.size
                   /\ r.bal = simBalance - bet.size
                   /\ r.mult = 2 * multiplier

\* a bet of 10 at 3.0 has been placed from a balance of 100 and won
C7_Witness ==
  /\ simBalance = Euro(119)
  /\ multiplier = 1
  /\ ended # {}

\* the first set of market m is reported completed for the first time
FirstSetCompletes(d) ==
  /\ ~testBetEnabled
  /\ d.id \in DOMAIN gameHistoricalData
  /\ gameHistoricalData[d.id].isOpen
  /\ ~gameHistoricalData[d.id].hasFirstSetEnded
  /\ d.hasMd /\ d.hasScore /\ d.status # "CLOSED"
  /\ Len(d.sets) >= 1
  /\ d.sets[1].completed

\* C8: in non-test mode, when the first set of a market is first reported
\* completed with h-a, a bet is placed iff |h-a| <= 2, the odds of the set
\* loser are >= 2 and no bet is open anywhere; it is on the set loser at its
\* current odds with stake = 10% x balance x multiplier.
C8_FirstSetTrigger ==
  \A d \in DeltaInputs :
     FirstSetCompletes(d) =>
        LET game == IF d.hasRc /\ d.inPlay
                    THEN UpdateOdds(gameHistoricalData[d.id], d.rc)
                    ELSE gameHistoricalData[d.id]
            h == d.sets[1].homeScore
            a == d.sets[1].awayScore
            loserOdds == IF h > a THEN game.pB ELSE game.pA
            loser == IF h > a THEN selectionIdB ELSE selectionIdA
            r == HandleMc(Cur, d)
            placed == r.nb = betsPlaced + 1
        IN /\ placed <=> (/\ Abs(h - a) <= 2
                          /\ loserOdds >= 20
                          /\ \A m \in Markets : ~UnsettledBet(m))
           /\ placed =>
                r.g[d.id].bet =
                   <<[selectionId |-> loser,
                      size |-> (simBalance \div 10) * multiplier,
                      price |-> loserOdds]>>

\* the frames of a whole text: what lies between successive terminators
RECURSIVE FramesOf(_)
FramesOf(text) ==
  LET index == IndexOfTerminator(text) IN
  IF index = 0 THEN <<>>
  ELSE <<SubSeq(text, 1, index - 1)>>
       \o FramesOf(SubSeq(text, index + 2, Len(text)))

\* the bytes are the UTF-8 encoding of N >= 0 frames, each followed by CR LF
IsFrameStream(bytes) ==
  LET text == Utf8Decode(bytes) IN
  /\ \A i \in 1..Len(text) : text[i] # Replacement
  /\ \/ text = <<>>
     \/ (Len(text) >= 2 /\ text[Len(text) - 1] = CR /\ text[Len(text)] = LF)

\* C3: when the chunks received on a connection concatenate to N frames,
\* each followed by CR LF, the data handler has dispatched exactly those N
\* frames, in order, whatever the chunk boundaries are, and retains nothing.
C3_FrameRoundTrip ==
  IsFrameStream(rx) =>
     (frames = FramesOf(Utf8Decode(rx)) /\ buffer = <<>>)

IsSubscription(w) == w.op \in {"marketSubscription", "orderSubscription"}

IsMarketSubscription(w) == w.op = "marketSubscription"

IsOrderSubscription(w) == w.op = "orderSubscription"

\* C9: the step that emits the subscriptions for n open markets writes
\* exactly ceil(n/10) marketSubscription messages of at most 10 ids each,
\* covering every open market id exactly once, with pairwise distinct ids
\* that differ from the order subscription's, and one orderSubscription
\* (25 open markets: batches of 10, 10 and 5).
C9_SubscriptionBatches ==
  [][(isSubscribed' /\ ~isSubscribed) =>
       LET ids == OpenMarketIds(gameHistoricalData')
           n == Len(ids)
           new == SubSeq(written', Len(written) + 1, Len(written'))
           market == SelectSeq(new, IsMarketSubscription)
           order == SelectSeq(new, IsOrderSubscription)
       IN /\ n > 0
          /\ Len(new) = Len(market) + Len(order)
          /\ Len(market) = (n + 9) \div 10
          /\ Len(order) = 1
          /\ \A i \in 1..Len(market) :
                Len(market[i].marketIds) \in 1..10
          /\ \A m \in 1..n :
                Cardinality({<<i, j>> \in
                   (1..Len(market)) \X (1..maxMarketsPerSubscription) :
                      /\ j <= Len(market[i].marketIds)
                      /\ market[i].marketIds[j] = ids[m]}) = 1
          /\ \A i \in 1..Len(market) :
             \A j \in 1..Len(market[i].marketIds) :
                \E m \in 1..n : market[i].marketIds[j] = ids[m]
          /\ \A i, j \in 1..Len(market) :
                i # j => market[i].id # market[j].id
          /\ \A i \in 1..Len(market) : market[i].id # order[1].id
          /\ n = 25 => /\ Len(market) = 3
                       /\ Len(market[1].marketIds) = 10
                       /\ Len(market[2].marketIds) = 10
                       /\ Len(market[3].marketIds) = 5
  ]_vars

\* 25 open markets have been subscribed to: three batches, the last of 5
C9_Witness ==
  /\ isSubscribed
  /\ Len(written) = 5
  /\ Len(written[4].marketIds) = 5
  /\ written[5].op = "orderSubscription"

\* C10: on every connection the authentication request is the first message
\* written, it is written as soon as the transport connects, and no
\* subscription is written before a status SUCCESS message was received on
\* that connection.
C10_AuthBeforeSubscribe ==
  /\ written # <<>> => written[1].op = "authentication"
  /\ wsState = "open" => written # <<>>
  /\ (\E i \in 1..Len(written) : IsSubscription(written[i])) => gotSuccess

\* the second connection has authenticated and subscribed
C10_Witness ==
  /\ ws = 2
  /\ isSubscribed
  /\ Len(written) = 3
  /\ written[2].op = "marketSubscription"

SuccessMessage == Message("status", "SUCCESS", <<>>, <<>>)

\* the market ids carried by a sequence of subscription messages
RECURSIVE SubscribedIds(_)
SubscribedIds(msgs) ==
  IF msgs = <<>> THEN <<>>
  ELSE Head(msgs).marketIds \o SubscribedIds(Tail(msgs))

\* C11: once subscriptions were written on the current connection, a further
\* status SUCCESS message on it writes nothing; every reconnect resets
\* isAuthenticated and isSubscribed, and the first status SUCCESS of a
\* connection writes the subscriptions for all open markets again.
C11_SubscribeOncePerConnection ==
  /\ [](/\ (wsState = "open"
             /\ \E i \in 1..Len(written) : IsSubscription(written[i]))
            => HandleStreamMessage(Cur, SuccessMessage).out = written
        /\ (wsState = "open" /\ successes = 0) =>
             LET r == HandleStreamMessage(Cur, SuccessMessage)
                 new == SubSeq(r.out, Len(written) + 1, Len(r.out))
                 ids == OpenMarketIds(gameHistoricalData)
             IN /\ r.auth
                /\ ids # <<>> =>
                     /\ r.sub
                     /\ SubscribedIds(new) = ids
                     /\ Len(SelectSeq(new, IsOrderSubscription)) = 1
                /\ ids = <<>> => new = <<>>)
  /\ [][ws' # ws => (/\ ~isAuthenticated'
                     /\ ~isSubscribed'
                     /\ written' = <<>>
                     /\ successes' = 0)]_vars

\* the second connection subscribed at its first status SUCCESS and wrote
\* nothing more at its second
C11_Witness ==
  /\ ws = 2
  /\ wsState = "open"
  /\ successes = 2
  /\ isSubscribed
  /\ Len(written) = 3

Lost == wsState \in {"errored", "closed"}

\* C12: an error or close event of the connection schedules a reconnect
\* (one more timer of 20 s) and stops nothing; with the timers firing, a
\* client that has lost its connection reaches CONNECTING again.
C12_ReconnectAfterLoss ==
  /\ [][(Lost' /\ wsState' # wsState) => timers' = timers + 1]_vars
  /\ [](Lost => timers > 0)
  /\ [](Lost /\ ws < MaxConns => ENABLED Reconnect)
  /\ ((Lost /\ ws < MaxConns) ~> (wsState = "connecting"))

\* the first connection was lost (error, then close), the new connection
\* attempt is under way and the second scheduled reconnect is still to fire
C12_Witness ==
  /\ ws = 2
  /\ wsState = "connecting"
  /\ timers > 0
  /\ closing = 0

\* C13: the first frame dispatched on a connection is the first frame of
\* the bytes received on that connection: nothing the previous connection
\* left in the buffer is part of it.
C13_NoStalePrefix ==
  frames # <<>> =>
     /\ FramesOf(Utf8Decode(rx)) # <<>>
     /\ frames[1] = FramesOf(Utf8Decode(rx))[1]

\* frames on which JSON.parse throws (a frame of whitespace only among
\* them), and frames it accepts (with whitespace around the text or not)
BadFrames == {<<120>>, <<>>, <<120, 120>>, <<115, 120>>, <<CR>>, <<LF>>}

GoodFrames ==
  {<<115>>, <<102>>, <<101>>, <<CR, 115>>, <<115, CR>>, <<LF, 101>>,
   <<102, LF>>}

StakingState(st) ==
  <<st.g, st.o, st.mult, st.bal, st.open, st.test, st.pend, st.nb, st.ended>>

\* C14: a frame that does not parse changes no market or staking state (nor
\* anything else the handler keeps), and the frames after it, in the same
\* chunk or in a later one, are dispatched in order with their usual effect.
C14_BadFrameSkipped ==
  (wsState = "open" /\ buffer = <<>>) =>
     \A bad \in BadFrames : \A good \in GoodFrames :
        LET alone == Drain(Cur, bad \o <<CR, LF>>, <<>>)
            ref == Drain(Cur, good \o <<CR, LF>>, <<>>)
            same == Drain(Cur, bad \o <<CR, LF>> \o good \o <<CR, LF>>, <<>>)
            later == Drain(alone.st, alone.buf \o good \o <<CR, LF>>, <<>>)
            split == Drain(Drain(Cur, bad \o <<CR>>, <<>>).st,
                           Drain(Cur, bad \o <<CR>>, <<>>).buf
                              \o <<LF>> \o good \o <<CR, LF>>, <<>>)
        IN /\ alone.st = Cur
           /\ StakingState(alone.st) = StakingState(Cur)
           /\ alone.got = <<bad>>
           /\ alone.buf = <<>>
           /\ same.st = ref.st
           /\ same.got = <<bad, good>>
           /\ same.buf = <<>>
           /\ later.st = ref.st
           /\ later.got = <<good>>
           /\ split.st = ref.st
           /\ split.got = <<bad, good>>

\* an unparseable frame was skipped and the status SUCCESS after it was
\* dispatched: the client subscribed
C14_Witness ==
  /\ frames = <<<<120>>, <<115>>>>
  /\ isSubscribed
  /\ successes = 1
  /\ buffer = <<>>

\* C15: when the requests of a successful placement (the exchange gave the
\* order a bet id) have completed, with the edit request succeeding or
\* failing, the bet is recorded in the market's state and hasOpenBet is set.
C15_PlacementSetsFlag ==
  [][\A req \in pending :
       (/\ req \notin pending'
        /\ \/ (req.stage = "replaceOrders" /\ req.betId # Undefined)
           \/ (req.stage = "placeOrders" /\ orderIds'[req.marketId] = req.k
                  /\ ~useImpossibleOdds)
        /\ req.marketId \in DOMAIN gameHistoricalData')
       => (/\ gameHistoricalData'[req.marketId].bet # <<>>
           /\ hasOpenBet')
  ]_vars

\* the report carries the order id tracked for its market (live only)
ReportMatches(st, m, o) ==
  /\ ~enableSimulation
  /\ m \in DOMAIN st.g
  /\ st.o[m] # Undefined
  /\ o.status = "EXECUTION_COMPLETE"
  /\ o.betId = st.o[m]

\* what the report o of market m may do to the state: settle the bet if it
\* matches, nothing otherwise
ReportEffect(before, after, m, o) ==
  IF ReportMatches(before, m, o)
  THEN /\ after.mult = IF o.hasProfit /\ o.profit > 0 THEN 1
                       ELSE 2 * before.mult
       /\ ~after.open
       /\ ~after.test
       /\ o.hasProfit => (after.log # <<>> /\ after.log[1].pnl = o.profit)
  ELSE /\ after.mult = before.mult
       /\ after.open = before.open
       /\ after.test = before.test
       /\ after.g = before.g

\* C16: live, an order report EXECUTION_COMPLETE that carries the tracked
\* order id of its market settles the bet with the reported profit:
\* multiplier 1 if profit > 0, doubled otherwise, hasOpenBet and
\* testBetPlaced cleared; a report with another status or another betId
\* (or none), and every report in simulation, leaves multiplier, flags and
\* store alone. Stated for each report of an order-change message, the
\* second report judged in the state the first one left.
C16_OrderReportSettlement ==
  \A m \in LiveMarkets \cup {UntrackedId} :
  \A o1 \in OrderInputs : \A o2 \in OrderInputs :
     LET r1 == HandleOc(Cur, Oc(m, <<o1>>))
         r2 == HandleOc(Cur, Oc(m, <<o1, o2>>))
     IN /\ ReportEffect(Cur, r1, m, o1)
        /\ ReportEffect(r1, r2, m, o2)

\* the price the last usable runner entry for selection sel carries, or old
ExpectedOdds(old, rc, sel) ==
  LET hits == {i \in 1..Len(rc) : /\ rc[i].id = sel
                                   /\ rc[i].batb.t = "number"
                                   /\ rc[i].batb.v > 10}
  IN IF hits = {} THEN old
     ELSE rc[CHOOSE i \in hits : \A j \in hits : j <= i].batb.v

\* C17: every delta of a tracked open market that carries runner entries,
\* with or without a market definition or an in-play flag, stores each
\* usable best-back price (> 1) in pA or pB by selection id, and entries of
\* other selections change no odds.
C17_OddsUpdatedByAnyDelta ==
  \A d \in DeltaInputs :
     (/\ d.id \in DOMAIN gameHistoricalData
      /\ gameHistoricalData[d.id].isOpen
      /\ d.hasRc
      /\ d.status # "CLOSED"
      /\ ~(~testBetEnabled /\ d.hasMd /\ d.inPlay /\ ~d.hasScore))
     => LET r == HandleMc(Cur, d)
            game == gameHistoricalData[d.id]
        IN /\ r.g[d.id].pA = ExpectedOdds(game.pA, d.rc, selectionIdA)
           /\ r.g[d.id].pB = ExpectedOdds(game.pB, d.rc, selectionIdB)

\* C18: hasFirstSetEnded never goes from true back to false, and a delta
\* for a market whose latch is set places no bet, whatever it reports: the
\* first-set condition of a market is evaluated once.
C18_FirstSetLatch ==
  /\ [][\A m \in DOMAIN gameHistoricalData \cap DOMAIN gameHistoricalData' :
          gameHistoricalData[m].hasFirstSetEnded
             => gameHistoricalData'[m].hasFirstSetEnded]_vars
  /\ [](\A d \in DeltaInputs :
          (/\ d.id \in DOMAIN gameHistoricalData
           /\ gameHistoricalData[d.id].hasFirstSetEnded)
          => LET r == HandleMc(Cur, d)
             IN /\ r.nb = betsPlaced
                /\ d.id \in DOMAIN r.g => r.g[d.id].hasFirstSetEnded)

\* the first set of a market ended 6-1 without a bet; its underdog now
\* stands at 3.0 and no bet is open
C18_Witness ==
  /\ ~testBetEnabled
  /\ ~hasOpenBet
  /\ \E m \in DOMAIN gameHistoricalData :
        /\ gameHistoricalData[m].isOpen
        /\ gameHistoricalData[m].hasFirstSetEnded
        /\ gameHistoricalData[m].bet = <<>>
        /\ gameHistoricalData[m].pB = 30

\* C19: in test mode a delta places a test bet only if the market is
\* in-play, testBetPlaced is false and no bet is open anywhere in the
\* store; the bet is on selection A if pA is within the tolerance of the
\* target odds, otherwise on selection B.
C19_TestBetTrigger ==
  \A d \in DeltaInputs :
     (/\ testBetEnabled
      /\ d.id \in DOMAIN gameHistoricalData
      /\ gameHistoricalData[d.id].isOpen
      /\ d.status # "CLOSED")
     => LET r == HandleMc(Cur, d)
            pA == ExpectedOdds(gameHistoricalData[d.id].pA, d.rc, selectionIdA)
            placed == r.nb = betsPlaced + 1
        IN placed =>
             /\ d.hasMd /\ d.inPlay
             /\ ~testBetPlaced
             /\ \A m \in Markets : ~UnsettledBet(m)
             /\ r.g[d.id].bet[1].selectionId =
                   IF pA # Null /\ Abs(pA - testBetOdds) <= testBetOddsTolerance
                   THEN selectionIdA ELSE selectionIdB

\* C20: hasOpenBet is true exactly when some market of the store holds a
\* recorded bet that has not been settled.
C20_FlagMatchesStore ==
  hasOpenBet <=> (\E m \in Markets : UnsettledBet(m))

\* a CLOSED delta for market m whose runner w is marked WINNER
ClosedWithWinner(m, w) ==
  Mc(m, TRUE, FALSE, FALSE, <<>>, "CLOSED", w, FALSE, <<>>)

\* C21: a bet is settled at most once: when an order report has settled the
\* bet of a market (the step stops tracking its order id and the market
\* stays in the store), a later CLOSED delta for that market applies no
\* win/lose accounting and leaves the multiplier.
C21_SettledAtMostOnce ==
  [][\A m \in DOMAIN gameHistoricalData :
     \A w \in {selectionIdA, selectionIdB} :
        (/\ ~enableSimulation
         /\ pending' = pending
         /\ orderIds[m] # Undefined
         /\ orderIds'[m] = Undefined
         /\ m \in DOMAIN gameHistoricalData'
         /\ gameHistoricalData'[m].isOpen
         /\ gameHistoricalData'[m].bet # <<>>)
        => LET r == HandleMc(Cur', ClosedWithWinner(m, w))
           IN /\ r.ns = 0
              /\ r.mult = multiplier'
  ]_vars

\* C22: a lost connection schedules at most one reconnect, although the
\* socket reports an error and then a close, and connectStreamAPI replaces
\* only a connection that has reported an error or a close.
C22_SingleReconnect ==
  /\ [](timers <= 1)
  /\ [][ws' # ws => Lost]_vars

\* C23: over a simulated bet cycle the stake is debited once: closing the
\* market of a bet of stake s leaves, after a loss, the balance as it is
\* (the balance before placement minus s) and, after a win, the balance
\* before placement plus the profit.
C23_StakeDebitedOnce ==
  \A m \in DOMAIN gameHistoricalData :
  \A w \in {selectionIdA, selectionIdB} :
     (/\ enableSimulation
      /\ gameHistoricalData[m].isOpen
      /\ UnsettledBet(m))
     => LET bet == gameHistoricalData[m].bet[1]
            before == simBalance + bet.size
            r == HandleMc(Cur, ClosedWithWinner(m, w))
        IN IF w = bet.selectionId
           THEN r.bal = before + ExpectedProfit(bet.price, bet.size)
           ELSE r.bal = before - bet.size

\* C24: a CLOSED delta naming a winner for a market that holds an unsettled
\* bet settles the bet and clears hasOpenBet, also when the market was
\* excluded (in-play without score data) after the bet was placed.
C24_ClosureSettlesBet ==
  \A m \in DOMAIN gameHistoricalData :
  \A w \in {selectionIdA, selectionIdB} :
     UnsettledBet(m)
     => LET r == HandleMc(Cur, ClosedWithWinner(m, w))
        IN /\ r.ns = 1
           /\ ~r.open
           /\ r.mult = IF w = gameHistoricalData[m].bet[1].selectionId
                       THEN 1 ELSE 2 * multiplier

====
